---- MODULE Spec2Model ----
(***************************************************************************)
(* Model of the persistence layer of the adaptive neural network:          *)
(*   src/config.py            FirebaseConfig.validate, validate_all        *)
(*   src/firebase_manager.py  FirebaseManager                              *)
(* The remote store is modelled by its two collections, each a set of      *)
(* documents [id, data]; a document's data is a mapping from field names   *)
(* to values, as a Python dict is.                                         *)
(***************************************************************************)
EXTENDS Integers, Sequences, FiniteSets, TLC

(* ----------------------------- bounds --------------------------------- *)
\* largest reading of the client clock
MaxClock == 2
\* capacity of the metrics collection in the model
MaxMetrics == 3

(* ------------------------ Optional[...] values ------------------------ *)
\* Python's None and a present value: the empty and the one-element sequence
None == <<>>
Some(x) == <<x>>

(* --------------------------- configuration ---------------------------- *)
\* files that exist on the file system
Files == {"cred.json"}

\* os.getenv gives None or a string (possibly empty)
ProjectIds == {None, Some(""), Some("p")}
CredentialPaths == {None, Some(""), Some("missing.json"), Some("cred.json")}

FirebaseConfig == [project_id : ProjectIds, credentials_path : CredentialPaths]

collection_name == "neural_network_states"

\* a configuration whose metrics go to the collection of the states
performance_collection_mixed == "neural_network_states"

performance_collection == "performance_metrics"

\* Python truthiness of an Optional[str]: None and "" are falsy
Truthy(s) == s # None /\ s[1] # ""

os_path_exists(p) == p \in Files

\* validate with the first two checks in the other order
validate_swapped(self) ==
    IF ~Truthy(self.credentials_path)
      THEN [raised |-> "ValueError", param |-> "FIREBASE_CREDENTIALS_PATH"]
    ELSE IF ~Truthy(self.project_id)
      THEN [raised |-> "ValueError", param |-> "FIREBASE_PROJECT_ID"]
    ELSE IF ~os_path_exists(self.credentials_path[1])
      THEN [raised |-> "FileNotFoundError", param |-> "FIREBASE_CREDENTIALS_PATH"]
    ELSE [raised |-> "none", param |-> "none"]

\* FirebaseConfig.validate: the outcome is the exception raised (with the
\* parameter its message names), or "none" when it returns True
validate(self) ==
    IF ~Truthy(self.project_id)
      THEN [raised |-> "ValueError", param |-> "FIREBASE_PROJECT_ID"]
    ELSE IF ~Truthy(self.credentials_path)
      THEN [raised |-> "ValueError", param |-> "FIREBASE_CREDENTIALS_PATH"]
    ELSE IF ~os_path_exists(self.credentials_path[1])
      THEN [raised |-> "FileNotFoundError", param |-> "FIREBASE_CREDENTIALS_PATH"]
    ELSE [raised |-> "none", param |-> "none"]

\* ConfigManager.validate_all: True, or False when validate raised
validate_all(self) == validate(self).raised = "none"

(* ------------------------- connection set-up -------------------------- *)
Managers == {1, 2}

DefaultApp == "[DEFAULT]"

\* credentials.Certificate(path): the exception it raises, or "none".
\* A path that is no string is rejected; a path with no file cannot be opened.
Certificate(path) ==
    IF path = None THEN "ValueError"
    ELSE IF ~os_path_exists(path[1]) THEN "FileNotFoundError"
    ELSE "none"

\* A FirebaseManager that has not been constructed
NoManager == [pc |-> "new", config |-> None, app |-> None, db |-> None,
              raised |-> "none", lines |-> <<>>]

\* an initialization without the test of firebase_admin._apps: it always
\* authenticates, and initialize_app refuses a second default app
InitializeFirebaseNoCheck(config, theApps) ==
    LET c == Certificate(config.credentials_path) IN
    IF c # "none"
      THEN [pc |-> "raised", config |-> Some(config), app |-> None,
            db |-> None, raised |-> c, lines |-> <<32>>]
    ELSE IF theApps # {}
      THEN [pc |-> "raised", config |-> Some(config), app |-> None,
            db |-> None, raised |-> "ValueError", lines |-> <<32, 33>>]
    ELSE [pc |-> "ready", config |-> Some(config),
          app |-> Some(DefaultApp), db |-> Some("client"),
          raised |-> "none", lines |-> <<32, 33, 42>>]

\* FirebaseManager.__init__ with _initialize_firebase, as one step: the
\* manager after construction, given the process-wide firebase_admin._apps.
\* lines is the path taken through _initialize_firebase (source lines).
InitializeFirebase(config, theApps) ==
    IF theApps = {}
      THEN LET c == Certificate(config.credentials_path) IN
           IF c # "none"
             THEN [pc |-> "raised", config |-> Some(config), app |-> None,
                   db |-> None, raised |-> c, lines |-> <<31, 32>>]
             ELSE [pc |-> "ready", config |-> Some(config),
                   app |-> Some(DefaultApp), db |-> Some("client"),
                   raised |-> "none", lines |-> <<31, 32, 33, 42>>]
      ELSE [pc |-> "ready", config |-> Some(config),
            app |-> Some(DefaultApp), db |-> Some("client"),
            raised |-> "none", lines |-> <<31, 39, 42>>]

\* firebase_admin._apps after the construction
AppsAfter(config, theApps) ==
    IF theApps = {} /\ Certificate(config.credentials_path) = "none"
      THEN {DefaultApp}
      ELSE theApps

(* ------------------------------ the store ----------------------------- *)
\* network ids the callers use; "" is the empty id
NetworkIds == {"", "a", "b"}

\* the id the store generates for document() without an argument: an id no
\* document of the collection has
AutoId(coll) ==
    LET n == CHOOSE i \in 1..(Cardinality(coll) + 1) :
                 /\ \A d \in coll : d.id # ("auto" \o ToString(i))
                 /\ \A j \in 1..(i - 1) : \E d \in coll : d.id = ("auto" \o ToString(j))
    IN "auto" \o ToString(n)

\* DocumentReference.set(data, merge=True): fields of an existing document
\* that data does not name are kept
DocumentSetMerge(coll, doc_id, data) ==
    LET old == {d \in coll : d.id = doc_id}
        base == IF old = {} THEN data
                ELSE LET o == (CHOOSE d \in old : TRUE).data IN
                     [k \in DOMAIN o \cup DOMAIN data |->
                        IF k \in DOMAIN data THEN data[k] ELSE o[k]]
    IN {d \in coll : d.id # doc_id} \cup {[id |-> doc_id, data |-> base]}

\* DocumentReference.set(data): the document is created or wholly replaced
DocumentSet(coll, doc_id, data) ==
    {d \in coll : d.id # doc_id} \cup {[id |-> doc_id, data |-> data]}

\* DocumentReference.get(): the snapshot, with exists and to_dict()
DocumentGet(coll, doc_id) ==
    IF \E d \in coll : d.id = doc_id
      THEN [exists |-> TRUE, to_dict |-> Some((CHOOSE d \in coll : d.id = doc_id).data)]
      ELSE [exists |-> FALSE, to_dict |-> None]

\* a load that answers a missing document with an empty mapping
LoadResultEmptyDict(doc) ==
    IF doc.exists THEN doc.to_dict ELSE Some(<<>>)

\* load_network_state, lines 117-123: the state when the document exists,
\* None otherwise
LoadResult(doc) ==
    IF doc.exists THEN doc.to_dict ELSE None

\* the store refuses a document path with an empty segment
ValidDocumentId(doc_id) == doc_id # ""

(* ------------------------------ payloads ------------------------------ *)
\* The mappings callers pass to save_network_state: any subset of the
\* fields, among them the two names the save itself writes.
StatePayloads ==
    {[k \in S |-> r[k]] :
        r \in [w : {1, 2}, network_id : {"b"}, last_updated : {-1}],
        S \in SUBSET {"w", "network_id", "last_updated"}}

\* The mappings callers pass to save_performance_metrics
MetricPayloads ==
    {[k \in S |-> r[k]] :
        r \in [loss : {1}, network_id : {"b"}, timestamp : {-1}],
        S \in {{"loss"}, {"loss", "network_id", "timestamp"}}}

\* a stamping that leaves the caller's own last_updated and network_id
StampStateKeep(state_data, network_id, now) ==
    [k \in DOMAIN state_data \cup {"last_updated", "network_id"} |->
        IF k \in DOMAIN state_data THEN state_data[k]
        ELSE IF k = "last_updated" THEN now ELSE network_id]

\* save_network_state, "Add metadata": the caller's mapping after
\* state_data['last_updated'] = now and state_data['network_id'] = id
StampState(state_data, network_id, now) ==
    [k \in DOMAIN state_data \cup {"last_updated", "network_id"} |->
        IF k = "last_updated" THEN now
        ELSE IF k = "network_id" THEN network_id
        ELSE state_data[k]]

\* a stamping that leaves the caller's own timestamp and network_id in place
StampMetricsKeep(metrics, network_id, now) ==
    [k \in DOMAIN metrics \cup {"timestamp", "network_id"} |->
        IF k \in DOMAIN metrics THEN metrics[k]
        ELSE IF k = "timestamp" THEN now ELSE network_id]

\* save_performance_metrics, "Add metadata"
StampMetrics(metrics, network_id, now) ==
    [k \in DOMAIN metrics \cup {"timestamp", "network_id"} |->
        IF k = "timestamp" THEN now
        ELSE IF k = "network_id" THEN network_id
        ELSE metrics[k]]

\* a save that lets the store pick the document id
StateDocumentIdAuto(coll, network_id) == AutoId(coll)

\* the document save_network_state writes to: collection.document(network_id)
StateDocumentId(coll, network_id) == network_id

\* a recording that keys the document by the network id
MetricDocumentIdKeyed(coll, network_id) == network_id

\* the document save_performance_metrics writes to: collection.document()
MetricDocumentId(coll, network_id) == AutoId(coll)

(* ------------------------------ history ------------------------------- *)
\* the limits callers pass to get_performance_history
HistoryLimits == -1..MaxMetrics

\* a query without the filter
WhereAny(coll, network_id) == coll

\* the query's filter: the documents whose network_id field is the argument
Where(coll, network_id) ==
    {d \in coll : d.data["network_id"] = network_id}

\* a query that lists the oldest first
RECURSIVE OrderByTimestampAsc(_)
OrderByTimestampAsc(S) ==
    IF S = {} THEN {<<>>}
    ELSE UNION {{<<d>> \o rest : rest \in OrderByTimestampAsc(S \ {d})} :
                  d \in {x \in S : \A y \in S :
                            x.data["timestamp"] <= y.data["timestamp"]}}

\* the query's order: every listing of the documents by timestamp, newest
\* first (the order among equal timestamps is left open)
RECURSIVE OrderByTimestampDesc(_)
OrderByTimestampDesc(S) ==
    IF S = {} THEN {<<>>}
    ELSE UNION {{<<d>> \o rest : rest \in OrderByTimestampDesc(S \ {d})} :
                  d \in {x \in S : \A y \in S :
                            x.data["timestamp"] >= y.data["timestamp"]}}

\* a bound that reads a limit <= 0 as no bound
LimitUnbounded(records, limit) ==
    IF limit <= 0 \/ limit >= Len(records) THEN records
    ELSE SubSeq(records, 1, limit)

\* the query's bound: the first limit records; none for a limit <= 0
Limit(records, limit) ==
    IF limit <= 0 THEN <<>>
    ELSE IF limit >= Len(records) THEN records
    ELSE SubSeq(records, 1, limit)

(* ------------------------------- state -------------------------------- *)
VARIABLES
    apps,               \* firebase_admin._apps, the process-wide sessions
    mgr,                \* the FirebaseManager objects
    validation,         \* the last validate call: its configuration and outcome
    validated,          \* the configurations validate has accepted so far
    state_collection,   \* the documents of collection_name
    metrics_collection, \* the documents of performance_collection
    utcnow,             \* the reading of datetime.utcnow()
    call,               \* the last completed call of a FirebaseManager method
    saved,              \* per network id, the payload the caller passed to the
                        \* most recent save_network_state that returned True
    recorded,           \* per network id, how many save_performance_metrics
                        \* calls have returned True
    server_time,        \* the reading of the store's own clock
    callers             \* the threads that are inside save_network_state

vars == <<apps, mgr, validation, validated, state_collection,
          metrics_collection, utcnow, call, saved, recorded, server_time,
          callers>>

\* what the store can raise inside a call: nothing, a FirebaseError, or
\* another exception
Faults == {"none", "FirebaseError", "Exception"}

NoCall == [op |-> "none"]

\* the threads that call save_network_state at the same time
Callers == {1, 2}

\* a thread that is not inside a call. passed is the mapping as the caller
\* handed it over, state_data the same dict object as it is now, wrote the
\* place of the thread's write among the writes the store has applied
IdleCaller == [pc |-> "idle", network_id |-> "", passed |-> <<>>,
               state_data |-> <<>>, result |-> FALSE, wrote |-> 0]

\* the except clauses of save_network_state, load_network_state and
\* save_performance_metrics: except FirebaseError, then except Exception
CaughtFirebaseOnly(exc) == exc = "FirebaseError"

Caught(exc) == exc \in {"FirebaseError", "Exception"}

\* the exception that leaves the method: none when a clause catches it
Escaped(exc) == IF exc = "none" \/ Caught(exc) THEN "none" ELSE exc

\* what save_network_state and save_performance_metrics return: True after
\* the write, False from either except clause
SaveReturn(exc) == exc = "none"

\* the entries of the caller's mapping that a call added or overwrote
Touched(before, after) ==
    {k \in DOMAIN after : k \notin DOMAIN before \/ after[k] # before[k]}

\* collection(name).document(doc_id).set(data) as seen by the collection
\* called mine
Written(mine, name, coll, doc_id, data) ==
    IF name = mine THEN DocumentSet(coll, doc_id, data) ELSE coll

\* Nothing constructed, nothing validated, both collections empty
Init ==
    /\ apps = {}
    /\ mgr = [m \in Managers |-> NoManager]
    /\ validation = None
    /\ validated = {}
    /\ state_collection = {}
    /\ metrics_collection = {}
    /\ utcnow = 0
    /\ call = NoCall
    /\ saved = [n \in NetworkIds |-> None]
    /\ recorded = [n \in NetworkIds |-> 0]
    /\ server_time = 0
    /\ callers = [c \in Callers |-> IdleCaller]

\* a configuration validate accepts
GoodConfig == [project_id |-> Some("p"), credentials_path |-> Some("cred.json")]

\* The state after FirebaseManager(config) has been constructed once
InitReady ==
    /\ apps = AppsAfter(GoodConfig, {})
    /\ mgr = [m \in Managers |->
                IF m = 1 THEN InitializeFirebase(GoodConfig, {}) ELSE NoManager]
    /\ validation = None
    /\ validated = {}
    /\ state_collection = {}
    /\ metrics_collection = {}
    /\ utcnow = 0
    /\ call = NoCall
    /\ saved = [n \in NetworkIds |-> None]
    /\ recorded = [n \in NetworkIds |-> 0]
    /\ server_time = 0
    /\ callers = [c \in Callers |-> IdleCaller]

(* ------------------------------ actions ------------------------------- *)
\* ConfigManager.validate_all, which calls FirebaseConfig.validate
Validate(config) ==
    /\ validation' = Some([config |-> config, outcome |-> validate(config),
                           all |-> validate_all(config)])
    /\ validated' = IF validate(config).raised = "none"
                      THEN validated \cup {config} ELSE validated
    /\ UNCHANGED <<apps, mgr, state_collection, metrics_collection, utcnow,
                   call, saved, recorded,
                   server_time, callers>>

\* FirebaseManager(config)
Construct(m, config) ==
    /\ mgr[m].pc = "new"
    /\ mgr' = [mgr EXCEPT ![m] = InitializeFirebase(config, apps)]
    /\ apps' = AppsAfter(config, apps)
    /\ UNCHANGED <<validation, validated, state_collection,
                   metrics_collection, utcnow, call, saved, recorded,
                   server_time, callers>>

\* the store's clock advances
TickServer ==
    /\ server_time < MaxClock
    /\ server_time' = server_time + 1
    /\ UNCHANGED <<apps, mgr, validation, validated, state_collection,
                   metrics_collection, utcnow, call, saved, recorded, callers>>

\* the client clock advances
Tick ==
    /\ utcnow < MaxClock
    /\ utcnow' = utcnow + 1
    /\ UNCHANGED <<apps, mgr, validation, validated, state_collection,
                   metrics_collection, call, saved, recorded,
                   server_time, callers>>

\* the fields of the document at doc_id that data does not name (recorded
\* with a save, for the observer: the fields a full replace removes)
FieldsDropped(coll, doc_id, data) ==
    LET doc == DocumentGet(coll, doc_id) IN
    IF doc.exists THEN DOMAIN doc.to_dict[1] \ DOMAIN data ELSE {}

\* FirebaseManager.save_network_state(network_id, state_data); fault is what
\* the store raises in doc_ref.set
save_network_state(m, network_id, state_data, fault) ==
    /\ mgr[m].pc = "ready"
    /\ LET stamped == StampState(state_data, network_id, utcnow)
           doc_id == StateDocumentId(state_collection, network_id)
           exc == IF fault # "none" THEN fault
                  ELSE IF ~ValidDocumentId(doc_id) THEN "Exception"
                  ELSE "none"
       IN IF mgr[m].db = None
            THEN /\ call' = [op |-> "save_network_state",
                             network_id |-> network_id, result |-> FALSE,
                             raised |-> "none", escaped |-> "none",
                             touched |-> {}]
                 /\ UNCHANGED <<state_collection, metrics_collection, saved>>
          ELSE IF exc # "none"
            THEN /\ call' = [op |-> "save_network_state",
                             network_id |-> network_id,
                             result |-> SaveReturn(exc),
                             raised |-> exc, escaped |-> Escaped(exc),
                             touched |-> Touched(state_data, stamped)]
                 /\ UNCHANGED <<state_collection, metrics_collection, saved>>
            ELSE /\ state_collection' = Written("neural_network_states",
                                           collection_name, state_collection,
                                           doc_id, stamped)
                 /\ metrics_collection' = Written("performance_metrics",
                                           collection_name, metrics_collection,
                                           doc_id, stamped)
                 /\ saved' = [saved EXCEPT ![network_id] = Some(state_data)]
                 /\ call' = [op |-> "save_network_state",
                             network_id |-> network_id,
                             result |-> SaveReturn(exc),
                             raised |-> "none", escaped |-> "none",
                             touched |-> Touched(state_data, stamped),
                             write_time |-> server_time,
                             dropped |-> FieldsDropped(state_collection, doc_id, stamped)]
    /\ UNCHANGED <<apps, mgr, validation, validated, utcnow, recorded,
                   server_time, callers>>

\* FirebaseManager.load_network_state(network_id); fault is what the store
\* raises in doc_ref.get
load_network_state(m, network_id, fault) ==
    /\ mgr[m].pc = "ready"
    /\ LET exc == IF fault # "none" THEN fault
                  ELSE IF ~ValidDocumentId(network_id) THEN "Exception"
                  ELSE "none"
       IN call' = [op |-> "load_network_state", network_id |-> network_id,
                   result |-> IF mgr[m].db = None \/ exc # "none" THEN None
                              ELSE LoadResult(DocumentGet(state_collection, network_id)),
                   raised |-> IF mgr[m].db = None THEN "none" ELSE exc,
                   escaped |-> IF mgr[m].db = None THEN "none" ELSE Escaped(exc)]
    /\ UNCHANGED <<apps, mgr, validation, validated, state_collection,
                   metrics_collection, utcnow, saved, recorded,
                   server_time, callers>>

\* FirebaseManager.save_performance_metrics(network_id, metrics); fault is
\* what the store raises in doc_ref.set
save_performance_metrics(m, network_id, metrics, fault) ==
    /\ mgr[m].pc = "ready"
    /\ Cardinality(metrics_collection) < MaxMetrics
    /\ LET stamped == StampMetrics(metrics, network_id, utcnow)
           doc_id == MetricDocumentId(metrics_collection, network_id)
           exc == IF fault # "none" THEN fault
                  ELSE IF ~ValidDocumentId(doc_id) THEN "Exception"
                  ELSE "none"
       IN IF mgr[m].db = None
            THEN /\ call' = [op |-> "save_performance_metrics",
                             network_id |-> network_id, result |-> FALSE,
                             raised |-> "none", escaped |-> "none",
                             touched |-> {}]
                 /\ UNCHANGED <<state_collection, metrics_collection, recorded>>
          ELSE IF exc # "none"
            THEN /\ call' = [op |-> "save_performance_metrics",
                             network_id |-> network_id,
                             result |-> SaveReturn(exc),
                             raised |-> exc, escaped |-> Escaped(exc),
                             touched |-> Touched(metrics, stamped)]
                 /\ UNCHANGED <<state_collection, metrics_collection, recorded>>
            ELSE /\ metrics_collection' = Written("performance_metrics",
                                           performance_collection,
                                           metrics_collection, doc_id, stamped)
                 /\ state_collection' = Written("neural_network_states",
                                           performance_collection,
                                           state_collection, doc_id, stamped)
                 /\ recorded' = [recorded EXCEPT ![network_id] = @ + 1]
                 /\ call' = [op |-> "save_performance_metrics",
                             network_id |-> network_id,
                             result |-> SaveReturn(exc),
                             raised |-> "none", escaped |-> "none",
                             touched |-> Touched(metrics, stamped),
                             write_time |-> server_time,
                             record_id |-> doc_id]
    /\ UNCHANGED <<apps, mgr, validation, validated, utcnow, saved,
                   server_time, callers>>

\* FirebaseManager.get_performance_history(network_id, limit): the query
\* filters, orders and truncates; result lists the documents returned (the
\* caller gets the data of each). failed: the store raised during the query.
get_performance_history(m, network_id, limit, failed) ==
    /\ mgr[m].pc = "ready"
    /\ IF mgr[m].db = None \/ failed
         THEN call' = [op |-> "get_performance_history",
                       network_id |-> network_id, limit |-> limit,
                       result |-> <<>>,
                       raised |-> IF mgr[m].db = None THEN "none"
                                  ELSE "PersistenceError"]
         ELSE \E records \in OrderByTimestampDesc(Where(metrics_collection, network_id)) :
                 call' = [op |-> "get_performance_history",
                          network_id |-> network_id, limit |-> limit,
                          result |-> Limit(records, limit), raised |-> "none"]
    /\ UNCHANGED <<apps, mgr, validation, validated, state_collection,
                   metrics_collection, utcnow, saved, recorded,
                   server_time, callers>>

\* __init__ in a thread of its own, lines 21-26: the fields are set and
\* _initialize_firebase is entered
InitBegin(m, config) ==
    /\ mgr[m].pc = "new"
    /\ mgr' = [mgr EXCEPT ![m] = [NoManager EXCEPT !.pc = "l31",
                                                  !.config = Some(config)]]
    /\ UNCHANGED <<apps, validation, validated, state_collection,
                   metrics_collection, utcnow, call, saved, recorded,
                   server_time, callers>>

\* line 31: the test of firebase_admin._apps
CheckApps(m) ==
    /\ mgr[m].pc = "l31"
    /\ mgr' = [mgr EXCEPT ![m].pc = IF apps = {} THEN "l32" ELSE "l39",
                          ![m].lines = Append(@, 31)]
    /\ UNCHANGED <<apps, validation, validated, state_collection,
                   metrics_collection, utcnow, call, saved, recorded,
                   server_time, callers>>

\* line 32: credentials.Certificate(credentials_path); what it raises is
\* logged and raised again by lines 45-56
LoadCertificate(m) ==
    /\ mgr[m].pc = "l32"
    /\ LET c == Certificate(mgr[m].config[1].credentials_path) IN
       mgr' = [mgr EXCEPT ![m].pc = IF c # "none" THEN "raised" ELSE "l33",
                          ![m].raised = c,
                          ![m].lines = Append(@, 32)]
    /\ UNCHANGED <<apps, validation, validated, state_collection,
                   metrics_collection, utcnow, call, saved, recorded,
                   server_time, callers>>

\* lines 33-36: firebase_admin.initialize_app registers the default app
\* under the library's lock, and raises ValueError when the default app
\* is already registered
InitializeApp(m) ==
    /\ mgr[m].pc = "l33"
    /\ IF DefaultApp \in apps
         THEN /\ mgr' = [mgr EXCEPT ![m].pc = "raised",
                                    ![m].raised = "ValueError",
                                    ![m].lines = Append(@, 33)]
              /\ UNCHANGED apps
         ELSE /\ mgr' = [mgr EXCEPT ![m].pc = "l42",
                                    ![m].app = Some(DefaultApp),
                                    ![m].lines = Append(@, 33)]
              /\ apps' = apps \cup {DefaultApp}
    /\ UNCHANGED <<validation, validated, state_collection,
                   metrics_collection, utcnow, call, saved, recorded,
                   server_time, callers>>

\* line 39: firebase_admin.get_app()
GetApp(m) ==
    /\ mgr[m].pc = "l39"
    /\ DefaultApp \in apps
    /\ mgr' = [mgr EXCEPT ![m].pc = "l42",
                          ![m].app = Some(DefaultApp),
                          ![m].lines = Append(@, 39)]
    /\ UNCHANGED <<apps, validation, validated, state_collection,
                   metrics_collection, utcnow, call, saved, recorded,
                   server_time, callers>>

\* line 42: firestore.client()
FirestoreClient(m) ==
    /\ mgr[m].pc = "l42"
    /\ mgr' = [mgr EXCEPT ![m].pc = "ready",
                          ![m].db = Some("client"),
                          ![m].lines = Append(@, 42)]
    /\ UNCHANGED <<apps, validation, validated, state_collection,
                   metrics_collection, utcnow, call, saved, recorded,
                   server_time, callers>>

\* save_network_state in a thread of its own, lines 71-78: the test of
\* self.db and the two assignments to the caller's mapping
SaveBegin(c, m, network_id, state_data) ==
    /\ callers[c].pc = "idle"
    /\ mgr[m].pc = "ready"
    /\ mgr[m].db # None
    /\ callers' = [callers EXCEPT ![c] =
                     [pc |-> "stamped", network_id |-> network_id,
                      passed |-> state_data,
                      state_data |-> StampState(state_data, network_id, utcnow),
                      result |-> FALSE, wrote |-> 0]]
    /\ UNCHANGED <<apps, mgr, validation, validated, state_collection,
                   metrics_collection, utcnow, call, saved, recorded,
                   server_time>>

\* save_network_state in a thread of its own, lines 80-94: the write and
\* the return; fault is what the store raises in doc_ref.set
SaveWrite(c, fault) ==
    /\ callers[c].pc = "stamped"
    /\ LET network_id == callers[c].network_id
           stamped == callers[c].state_data
           doc_id == StateDocumentId(state_collection, network_id)
           exc == IF fault # "none" THEN fault
                  ELSE IF ~ValidDocumentId(doc_id) THEN "Exception"
                  ELSE "none"
       IN IF exc # "none"
            THEN /\ callers' = [callers EXCEPT ![c].pc = "done",
                                               ![c].result = SaveReturn(exc)]
                 /\ call' = [op |-> "save_network_state",
                             network_id |-> network_id,
                             result |-> SaveReturn(exc),
                             raised |-> exc, escaped |-> Escaped(exc),
                             touched |-> Touched(callers[c].passed, stamped)]
                 /\ UNCHANGED <<state_collection, metrics_collection, saved>>
            ELSE /\ state_collection' = Written("neural_network_states",
                                           collection_name, state_collection,
                                           doc_id, stamped)
                 /\ metrics_collection' = Written("performance_metrics",
                                           collection_name, metrics_collection,
                                           doc_id, stamped)
                 /\ saved' = [saved EXCEPT ![network_id] = Some(callers[c].passed)]
                 /\ callers' = [callers EXCEPT
                       ![c].pc = "done",
                       ![c].result = SaveReturn(exc),
                       ![c].wrote = 1 + Cardinality({o \in Callers :
                                                      callers[o].wrote > 0})]
                 /\ call' = [op |-> "save_network_state",
                             network_id |-> network_id,
                             result |-> SaveReturn(exc),
                             raised |-> "none", escaped |-> "none",
                             touched |-> Touched(callers[c].passed, stamped),
                             write_time |-> server_time,
                             dropped |-> FieldsDropped(state_collection, doc_id, stamped)]
    /\ UNCHANGED <<apps, mgr, validation, validated, utcnow, recorded,
                   server_time>>

(* --------------------------- specifications --------------------------- *)
\* the configuration gate and the construction of managers
NextGate ==
    \/ \E config \in FirebaseConfig : Validate(config)
    \/ \E m \in Managers, config \in FirebaseConfig : Construct(m, config)

SpecGate == Init /\ [][NextGate]_vars

\* the state store, used through a constructed manager
NextState ==
    \/ Tick
    \/ \E m \in Managers, n \in NetworkIds, p \in StatePayloads, f \in Faults :
          save_network_state(m, n, p, f)
    \/ \E m \in Managers, n \in NetworkIds, f \in Faults :
          load_network_state(m, n, f)

SpecState == InitReady /\ [][NextState]_vars

\* the metrics recorder, used through a constructed manager by the
\* networks "a" and "b"
NextMetrics ==
    \/ Tick
    \/ \E m \in Managers, n \in NetworkIds \ {""}, p \in MetricPayloads,
          f \in Faults :
          save_performance_metrics(m, n, p, f)
    \/ \E m \in Managers, n \in NetworkIds \ {""}, k \in HistoryLimits,
          b \in BOOLEAN :
          get_performance_history(m, n, k, b)

SpecMetrics == InitReady /\ [][NextMetrics]_vars

\* the payloads of the networks "a" and "b" in the specifications that run
\* the state store and the metrics recorder side by side
StorePayloads ==
    {p \in StatePayloads :
        DOMAIN p = {"w"} \/ DOMAIN p = {"w", "network_id", "last_updated"}}

\* state store and metrics recorder together, at one clock reading
NextStore ==
    \/ \E m \in Managers, n \in NetworkIds \ {""}, p \in StorePayloads,
          f \in Faults :
          save_network_state(m, n, p, f)
    \/ \E m \in Managers, n \in NetworkIds \ {""}, f \in Faults :
          load_network_state(m, n, f)
    \/ \E m \in Managers, n \in NetworkIds \ {""}, p \in MetricPayloads,
          f \in Faults :
          save_performance_metrics(m, n, p, f)

SpecStore == InitReady /\ [][NextStore]_vars

\* the two clocks, and writes of network "a" that the store accepts
NextClock ==
    \/ Tick
    \/ TickServer
    \/ \E m \in Managers, p \in StorePayloads :
          save_network_state(m, "a", p, "none")
    \/ \E m \in Managers, p \in MetricPayloads :
          save_performance_metrics(m, "a", p, "none")

SpecClock == InitReady /\ [][NextClock]_vars

\* two threads, each in one save_network_state through the shared manager
NextRace ==
    \/ Tick
    \/ \E c \in Callers, m \in Managers, n \in NetworkIds \ {""},
          p \in StorePayloads \cup {<<>>} :
          SaveBegin(c, m, n, p)
    \/ \E c \in Callers, f \in Faults : SaveWrite(c, f)

SpecRace == InitReady /\ [][NextRace]_vars

\* two threads, each constructing a FirebaseManager, line by line
NextInitRace ==
    \/ \E m \in Managers, config \in FirebaseConfig : InitBegin(m, config)
    \/ \E m \in Managers : CheckApps(m)
    \/ \E m \in Managers : LoadCertificate(m)
    \/ \E m \in Managers : InitializeApp(m)
    \/ \E m \in Managers : GetApp(m)
    \/ \E m \in Managers : FirestoreClient(m)

SpecInitRace == Init /\ [][NextInitRace]_vars

(* ------------------------------ claims -------------------------------- *)
\* the fields save_network_state writes itself
StampedStateFields == {"last_updated", "network_id"}

\* the documents of the state collection that belong to a network id
StateDocsOf(n) ==
    {d \in state_collection : d.id = n \/ d.data["network_id"] = n}

\* C1. Round trip: when the most recent successful save to a non-empty
\* network id passed payload p, a load of that id which the store answers
\* returns a mapping that has every field of p other than the two stamped
\* ones, with p's value.
C1_RoundTrip ==
    (/\ call.op = "load_network_state"
     /\ call.raised = "none"
     /\ call.network_id # ""
     /\ saved[call.network_id] # None)
    => /\ call.result # None
       /\ LET p == saved[call.network_id][1]
              r == call.result[1]
          IN \A k \in DOMAIN p \ StampedStateFields :
                k \in DOMAIN r /\ r[k] = p[k]

\* C1 witness: a load of "a" answered after a save whose payload carried w
\* and its own network_id and last_updated
C1_Witness ==
    /\ call.op = "load_network_state"
    /\ call.raised = "none"
    /\ call.network_id = "a"
    /\ saved["a"] # None
    /\ DOMAIN saved["a"][1] = {"w", "network_id", "last_updated"}
    /\ call.result # None
    /\ call.result[1]["w"] = saved["a"][1]["w"]

\* C2. Upsert, not merge: every network id has at most one state document;
\* it has none while no save to it has succeeded, and otherwise the
\* document holds exactly the fields of the latest successfully saved
\* payload plus the two stamped fields, with the payload's values.
C2_UpsertNotMerge ==
    \A n \in NetworkIds :
        /\ Cardinality(StateDocsOf(n)) <= 1
        /\ saved[n] = None => StateDocsOf(n) = {}
        /\ saved[n] # None =>
             /\ Cardinality(StateDocsOf(n)) = 1
             /\ \A d \in StateDocsOf(n) :
                  LET p == saved[n][1] IN
                  /\ d.id = n
                  /\ DOMAIN d.data = DOMAIN p \cup StampedStateFields
                  /\ \A k \in DOMAIN p \ StampedStateFields : d.data[k] = p[k]
                  /\ d.data["network_id"] = n
                  /\ d.data["last_updated"] \in 0..utcnow

\* C2 witness: a successful save has just replaced a document that had a
\* field the new payload lacks
C2_Witness ==
    /\ call.op = "save_network_state"
    /\ call.result = TRUE
    /\ call.dropped = {"w"}
    /\ "w" \notin DOMAIN (CHOOSE d \in state_collection : d.id = call.network_id).data

\* C3. Missing state: a load of a network id no save has succeeded for
\* returns None, and the collection holds no document for that id
\* afterwards.
C3_MissingState ==
    (call.op = "load_network_state" /\ saved[call.network_id] = None)
    => /\ call.result = None
       /\ StateDocsOf(call.network_id) = {}

\* C3 witness: the store answered a load of "a" while only "b" had been saved
C3_Witness ==
    /\ call.op = "load_network_state"
    /\ call.network_id = "a"
    /\ call.raised = "none"
    /\ saved["a"] = None
    /\ saved["b"] # None
    /\ call.result = None

\* C4. A load that failed in the store (doc_ref.get raised a FirebaseError)
\* never returns the value a load of an id without a document returns.
C4_ErrorDistinctFromNotFound ==
    (call.op = "load_network_state" /\ call.raised = "FirebaseError")
    => call.result # LoadResult(DocumentGet({}, call.network_id))

\* C9. Config gate outcomes: validate raises ValueError naming the project
\* identifier when it is absent (unset or empty); else ValueError naming
\* the credential path when that is absent; else FileNotFoundError when no
\* file is at the path; else it returns. A validate step changes nothing
\* but the record of the validation.
Absent(s) == s = None \/ s = Some("")

GateOutcome ==
    validation # None =>
      LET c == validation[1].config
          o == validation[1].outcome
      IN /\ Absent(c.project_id) =>
              o = [raised |-> "ValueError", param |-> "FIREBASE_PROJECT_ID"]
         /\ (~Absent(c.project_id) /\ Absent(c.credentials_path)) =>
              o = [raised |-> "ValueError", param |-> "FIREBASE_CREDENTIALS_PATH"]
         /\ (~Absent(c.project_id) /\ ~Absent(c.credentials_path)
               /\ c.credentials_path[1] \notin Files) =>
              o.raised = "FileNotFoundError"
         /\ (~Absent(c.project_id) /\ ~Absent(c.credentials_path)
               /\ c.credentials_path[1] \in Files) =>
              o.raised = "none"

C9_ConfigGateOutcomes ==
    [][/\ GateOutcome'
       /\ validation' # validation =>
            UNCHANGED <<apps, mgr, state_collection, metrics_collection,
                        utcnow, call, saved, recorded,
                   server_time, callers>>]_vars

\* C9 witness: validate got past both presence checks and found no file
C9_Witness ==
    /\ validation # None
    /\ validation[1].config.project_id = Some("p")
    /\ validation[1].config.credentials_path = Some("missing.json")
    /\ validation[1].outcome.raised = "FileNotFoundError"

\* line was executed in the manager's _initialize_firebase
Reached(m, line) == \E i \in 1..Len(mgr[m].lines) : mgr[m].lines[i] = line

\* C10. Gate before connect: a construction whose configuration has an
\* unset or dangling credential path never reaches initialize_app, and a
\* construction that reaches initialize_app was given a configuration that
\* validate had accepted.
C10_GateBeforeConnect ==
    \A m \in Managers :
        mgr[m].pc # "new" =>
          /\ Certificate(mgr[m].config[1].credentials_path) # "none"
               => ~Reached(m, 33)
          /\ Reached(m, 33) => mgr[m].config[1] \in validated

\* the metric documents that carry a network id
MetricDocsOf(n) == {d \in metrics_collection : d.data["network_id"] = n}

\* every network id has as many metric documents as recordings that
\* succeeded for it, and no two metric documents share a record id
MetricsCounted ==
    /\ \A n \in NetworkIds : Cardinality(MetricDocsOf(n)) = recorded[n]
    /\ Cardinality({d.id : d \in metrics_collection})
         = Cardinality(metrics_collection)

\* C5. Append-only metrics: N successful recordings for a network id leave
\* N metric documents for it, all with different record ids, and no step
\* changes or removes a metric document.
C5_AppendOnly ==
    [][/\ MetricsCounted'
       /\ metrics_collection \subseteq metrics_collection']_vars

\* C5 witness: two recordings for "a" with the same payload at the same
\* clock reading are two documents
C5_Witness ==
    /\ call.op = "save_performance_metrics"
    /\ call.result = TRUE
    /\ recorded["a"] = 2
    /\ \E d1, d2 \in MetricDocsOf("a") : d1.id # d2.id /\ d1.data = d2.data

\* the records a history call returned
Returned == {call.result[i] : i \in 1..Len(call.result)}

\* C6. Ordering and bound: a history call with limit k > 0 that the store
\* answers returns min(k, number recorded for the id) different records of
\* the id, newest first, and no record left out is newer than one returned.
C6_OrderingAndBound ==
    (call.op = "get_performance_history" /\ call.raised = "none" /\ call.limit > 0)
    => LET r == call.result
           k == call.limit
           n == recorded[call.network_id]
       IN /\ Len(r) <= k
          /\ Len(r) = IF n < k THEN n ELSE k
          /\ Cardinality(Returned) = Len(r)
          /\ Returned \subseteq MetricDocsOf(call.network_id)
          /\ \A i, j \in 1..Len(r) :
                i < j => r[i].data["timestamp"] >= r[j].data["timestamp"]
          /\ \A d \in MetricDocsOf(call.network_id) \ Returned :
                \A i \in 1..Len(r) : d.data["timestamp"] <= r[i].data["timestamp"]

\* C6 witness: three records of "a" stamped 0 < 1 < 2, and a history call
\* with limit 2 that returned the ones stamped 2 and 1
C6_Witness ==
    /\ call.op = "get_performance_history"
    /\ call.raised = "none"
    /\ call.network_id = "a"
    /\ call.limit = 2
    /\ {d.data["timestamp"] : d \in MetricDocsOf("a")} = {0, 1, 2}
    /\ Len(call.result) = 2
    /\ call.result[1].data["timestamp"] = 2
    /\ call.result[2].data["timestamp"] = 1

\* C7. History filter: every record a history call returns is a metric
\* document whose network_id is the id asked for.
C7_HistoryFilter ==
    call.op = "get_performance_history"
    => \A i \in 1..Len(call.result) :
          /\ call.result[i] \in metrics_collection
          /\ call.result[i].data["network_id"] = call.network_id

\* C7 witness: a history of "a" returned a record while records of "b"
\* were in the collection
C7_Witness ==
    /\ call.op = "get_performance_history"
    /\ call.network_id = "a"
    /\ Len(call.result) >= 1
    /\ MetricDocsOf("b") # {}

\* C8. A history call with limit <= 0 returns the empty sequence.
C8_NonPositiveLimit ==
    (call.op = "get_performance_history" /\ call.limit <= 0)
    => call.result = <<>>

\* C8 witness: the store answered a history call with limit 0 for an id
\* that has records
C8_Witness ==
    /\ call.op = "get_performance_history"
    /\ call.raised = "none"
    /\ call.limit = 0
    /\ MetricDocsOf(call.network_id) # {}
    /\ call.result = <<>>

\* C11. Idempotent initialization: a construction that starts while a
\* session exists ends ready, holding that session, without loading a
\* credential or calling initialize_app, and leaves the sessions as they
\* were; the process never holds more than one session.
C11_IdempotentInit ==
    [][/\ Cardinality(apps') <= 1
       /\ \A m \in Managers :
            (apps # {} /\ mgr'[m] # mgr[m]) =>
               /\ mgr'[m].pc = "ready"
               /\ mgr'[m].app = Some(DefaultApp)
               /\ mgr'[m].lines = <<31, 39, 42>>
               /\ apps' = apps]_vars

\* C11 witness: manager 1 created the session and manager 2, constructed
\* afterwards with a configuration that has no credential path, reuses it
C11_Witness ==
    /\ mgr[1].lines = <<31, 32, 33, 42>>
    /\ mgr[2].lines = <<31, 39, 42>>
    /\ mgr[2].pc = "ready"
    /\ mgr[2].config[1].credentials_path = None
    /\ mgr[2].app = mgr[1].app
    /\ apps = {DefaultApp}

\* C12. Persistence errors never abort the caller: no exception leaves
\* save_network_state, load_network_state or save_performance_metrics, and
\* a call in which the store raised returns False (the saves) or None (the
\* load).
C12_ErrorsContained ==
    /\ call.op \in {"save_network_state", "save_performance_metrics"} =>
          /\ call.escaped = "none"
          /\ call.result \in BOOLEAN
          /\ call.raised # "none" => call.result = FALSE
    /\ call.op = "load_network_state" =>
          /\ call.escaped = "none"
          /\ call.raised # "none" => call.result = None

\* C12 witness: the store raised something other than a FirebaseError in a
\* load of an id that has a document, and the load returned None
C12_Witness ==
    /\ call.op = "load_network_state"
    /\ call.raised = "Exception"
    /\ call.escaped = "none"
    /\ call.result = None
    /\ \E d \in state_collection : d.id = call.network_id

\* C13. A save in which an unexpected error was raised (not a FirebaseError)
\* ends differently from a save that found the store unreachable: it lets
\* the exception out, or returns another value.
C13_UnexpectedDistinct ==
    (call.op = "save_network_state" /\ call.raised = "Exception")
    => \/ call.escaped # "none"
       \/ call.result # SaveReturn("FirebaseError")

\* the document a successful save has just written
JustWritten ==
    IF call.op = "save_network_state"
      THEN {d \in state_collection : d.id = call.network_id}
      ELSE {d \in metrics_collection : d.id = call.record_id}

\* C14. Server-assigned timestamps: the document a save_network_state has
\* written carries the store's time of the write in last_updated, and the
\* document a save_performance_metrics has written carries it in timestamp.
C14_ServerTimestamps ==
    (call.op \in {"save_network_state", "save_performance_metrics"}
       /\ call.result = TRUE)
    => \A d \in JustWritten :
          IF call.op = "save_network_state"
            THEN d.data["last_updated"] = call.write_time
            ELSE d.data["timestamp"] = call.write_time

C17_MetricsIndependent ==
    [][/\ call'.op = "save_performance_metrics" =>
            /\ state_collection' = state_collection
            /\ call'.raised = "none" => call'.result = TRUE
       /\ call'.op = "save_network_state" =>
            metrics_collection' = metrics_collection]_vars

\* C17 witness: a metric of "b" was recorded while "b" had no state
\* document and "a" had one
C17_Witness ==
    /\ call.op = "save_performance_metrics"
    /\ call.network_id = "b"
    /\ call.result = TRUE
    /\ StateDocsOf("b") = {}
    /\ StateDocsOf("a") # {}
    /\ MetricDocsOf("b") # {}

\* C19. Caller's payload unchanged on failure: a save_network_state or
\* save_performance_metrics that returned False because the store raised
\* has added or overwritten no entry of the mapping it was given.
C19_PayloadUnchangedOnFailure ==
    (call.op \in {"save_network_state", "save_performance_metrics"}
       /\ call.result = FALSE /\ call.raised # "none")
    => call.touched = {}

\* the thread whose write the store applied last
LastWriter == CHOOSE c \in Callers : \A o \in Callers : callers[o].wrote <= callers[c].wrote

\* C16. Last write wins: when two threads have both saved to the same
\* network id and both saves returned True, the collection holds exactly
\* one document for that id, and its data is, entry for entry, the mapping
\* of the thread whose write reached the store last.
C16_LastWriteWins ==
    \A c1, c2 \in Callers :
        (/\ c1 # c2
         /\ callers[c1].pc = "done" /\ callers[c2].pc = "done"
         /\ callers[c1].result = TRUE /\ callers[c2].result = TRUE
         /\ callers[c1].network_id = callers[c2].network_id)
        => StateDocsOf(callers[c1].network_id)
             = {[id |-> callers[c1].network_id,
                 data |-> callers[LastWriter].state_data]}

\* C16 witness: thread 1 stamped a payload with w before thread 2 stamped
\* one without, thread 2 wrote first and thread 1 wrote last
C16_Witness ==
    /\ callers[1].pc = "done" /\ callers[2].pc = "done"
    /\ callers[1].result = TRUE /\ callers[2].result = TRUE
    /\ callers[1].network_id = "a" /\ callers[2].network_id = "a"
    /\ "w" \in DOMAIN callers[1].state_data
    /\ "w" \notin DOMAIN callers[2].state_data
    /\ callers[1].state_data["last_updated"] < callers[2].state_data["last_updated"]
    /\ callers[1].wrote = 2
    /\ callers[2].wrote = 1

\* the initialization of m has ended, by returning or by raising
Finished(m) == mgr[m].pc \in {"ready", "raised"}

\* C18. Session created once under concurrency: when two initializations
\* with loadable credentials ran, in any interleaving of their lines,
\* starting with no app registered, then exactly one of them created the
\* app (line 33), the other took the existing one (line 39), one app is
\* registered and neither raised.
C18_SessionCreatedOnce ==
    \A m1, m2 \in Managers :
        (/\ m1 # m2
         /\ Finished(m1) /\ Finished(m2)
         /\ Certificate(mgr[m1].config[1].credentials_path) = "none"
         /\ Certificate(mgr[m2].config[1].credentials_path) = "none")
        => /\ mgr[m1].pc = "ready" /\ mgr[m2].pc = "ready"
           /\ Reached(m1, 33) # Reached(m2, 33)
           /\ Reached(m1, 39) # Reached(m2, 39)
           /\ Cardinality(apps) = 1

====
